---- MODULE Spec2Model ----
(***************************************************************************)
(* The /index endpoint of rest_api (controller/index.py, upload_file):     *)
(* decode the meta form field, copy every uploaded file into the upload    *)
(* directory, open the document store on the index named by the first      *)
(* file's metadata, assemble the indexing pipeline and run it.             *)
(*                                                                         *)
(* One request is in flight at a time; the upload directory and the        *)
(* external document store outlive the requests.                           *)
(***************************************************************************)
EXTENDS Integers, Sequences, FiniteSets, TLC

\* ------------------------------------------------------------------ bounds
\* Largest batch of files in one request.
MaxFiles == 2
\* Number of temporary files the upload directory can take in a run of the
\* model (every copied file takes one fresh uuid).
MaxUploads == 2

\* ------------------------------------------------------- program constants
EmbeddingDim == 768
PreProcessorSplitLength == 50

\* ---------------------------------------------------------- python values
\* A dict with string keys is a function on its set of keys.
EmptyDict == [k \in {} |-> ""]

DictSet(d, key, value) ==
    [k \in (DOMAIN d) \cup {key} |-> IF k = key THEN value ELSE d[k]]

\* Optional[T]: <<>> is None, <<v>> is the value v.
Nothing == <<>>
Some(v) == <<v>>

\* ------------------------------------------------------------ json.loads
\* The meta form strings a caller sends in the model. "{" is not JSON.
MetaStrings ==
    { "null", "[1,2,3]", "[]", "7", "0", "\"x\"", "false", "{}",
      "{\"index\":\"docs-a\"}", "{\"index\":\"docs-b\"}", "{" }

\* A decoded JSON value: its python type, its size (number of items of a
\* list, dict or str; the value of an int; 1 for True and 0 for False and
\* None) and, for a dict, the mapping itself.
JsonValue(type, size, dict) == [type |-> type, size |-> size, dict |-> dict]

json_valid(s) == s # "{"

json_loads(s) ==
    CASE s = "null"    -> JsonValue("NoneType", 0, EmptyDict)
      [] s = "[1,2,3]" -> JsonValue("list", 3, EmptyDict)
      [] s = "[]"      -> JsonValue("list", 0, EmptyDict)
      [] s = "7"       -> JsonValue("int", 7, EmptyDict)
      [] s = "0"       -> JsonValue("int", 0, EmptyDict)
      [] s = "\"x\""   -> JsonValue("str", 1, EmptyDict)
      [] s = "false"   -> JsonValue("bool", 0, EmptyDict)
      [] s = "{}"      -> JsonValue("dict", 0, EmptyDict)
      [] s = "{\"index\":\"docs-a\"}" ->
             JsonValue("dict", 1, DictSet(EmptyDict, "index", "docs-a"))
      [] s = "{\"index\":\"docs-b\"}" ->
             JsonValue("dict", 1, DictSet(EmptyDict, "index", "docs-b"))

\* Python truth value: None, False, 0 and empty containers are falsy.
Truthy(v) == v.size # 0

\* json.loads(meta) or {}
MetaFormOf(s) ==
    IF Truthy(json_loads(s)) THEN json_loads(s) ELSE JsonValue("dict", 0, EmptyDict)

IsDict(v) == v.type = "dict"

\* str(type(meta_form)) as the f-string of the rejection formats it.
TypeRepr(v) ==
    CASE v.type = "list"     -> "<class 'list'>"
      [] v.type = "int"      -> "<class 'int'>"
      [] v.type = "str"      -> "<class 'str'>"
      [] v.type = "bool"     -> "<class 'bool'>"
      [] v.type = "NoneType" -> "<class 'NoneType'>"
      [] v.type = "dict"     -> "<class 'dict'>"

\* f"The meta field must be a dict or None, not {type(meta_form)}"
MetaErrorDetail(v) ==
    "The meta field must be a dict or None, not " \o TypeRepr(v)

\* ---------------------------------------------------------------- uploads
\* The uploaded files of the model: a name and the text of the file, a
\* sequence of sentences.
UploadFiles ==
    { [filename |-> "a.txt", content |-> <<"s1", "s2">>],
      [filename |-> "b.pdf", content |-> <<"s1", "s2">>],
      [filename |-> "c.md",  content |-> <<"s3">>],
      [filename |-> "d.bin", content |-> <<"s3">>] }

Batches == UNION { [1..n -> UploadFiles] : n \in 1..MaxFiles }

Suffix(filename) ==
    CASE filename = "a.txt" -> "txt"
      [] filename = "b.pdf" -> "pdf"
      [] filename = "c.md"  -> "md"
      [] filename = "d.bin" -> "bin"

\* The override form fields; every field is Optional and defaults to None.
FileConverterParams(rnt, langs) ==
    [remove_numeric_tables |-> rnt, valid_languages |-> langs]

PreprocessorParams(by, len) ==
    [clean_whitespace |-> Nothing, clean_empty_lines |-> Nothing,
     clean_header_footer |-> Nothing, split_by |-> by, split_length |-> len,
     split_overlap |-> Nothing, split_respect_sentence_boundary |-> Nothing]

\* The forms a caller sends in the model: no override, a preprocessor
\* override, a converter override.
OverrideForms ==
    { [fc |-> FileConverterParams(Nothing, Nothing),
       pp |-> PreprocessorParams(Nothing, Nothing)],
      [fc |-> FileConverterParams(Nothing, Nothing),
       pp |-> PreprocessorParams(Some("word"), Some(1))],
      [fc |-> FileConverterParams(Some(TRUE), Nothing),
       pp |-> PreprocessorParams(Nothing, Nothing)] }

NoForm == [fc |-> FileConverterParams(Nothing, Nothing),
           pp |-> PreprocessorParams(Nothing, Nothing)]

VARIABLES
    pc,              \* position of the handler
    failedAt,        \* where an uncaught exception left the handler
    response,        \* HTTP response of the request
    meta,            \* the meta form field, a string
    files,           \* the uploaded files of the request
    form,            \* fileconverter_params and preprocessor_params
    heap,            \* the dict objects of the request, by reference
    meta_form,       \* reference to the decoded meta dict (0: unbound)
    file_paths,      \* local list of temporary paths
    file_metas,      \* local list of references to dicts
    closed,          \* per uploaded file: file.file is closed
    tmp_of,          \* per copied file: the temporary path written for it
    document_store,  \* the ElasticsearchDocumentStore of the request
    pipeline,        \* the Pipeline of the request
    ran,             \* what p.run did, one entry per file it finished
    upload_dir,      \* FILE_UPLOAD_PATH: the temporary files on disk
    store,           \* the external store: collection -> documents
    before           \* upload_dir and store as the request found them

vars == <<pc, failedAt, response, meta, files, form, heap, meta_form,
          file_paths, file_metas, closed, tmp_of, document_store, pipeline,
          ran, upload_dir, store, before>>

Collections == {"docs-a", "docs-b", "document"}

NoResponse == [status |-> 0, detail |-> ""]
NoStore == [constructed |-> FALSE, index |-> "", similarity |-> "",
            embedding_dim |-> 0, duplicate_documents |-> ""]
NoPipeline == [built |-> FALSE, graph |-> {},
               preprocessor |-> PreprocessorParams(Nothing, Nothing),
               converter |-> FileConverterParams(Nothing, Nothing)]

Init ==
    /\ pc = "idle"
    /\ failedAt = "none"
    /\ response = NoResponse
    /\ meta = "null"
    /\ files = <<>>
    /\ form = NoForm
    /\ heap = <<>>
    /\ meta_form = 0
    /\ file_paths = <<>>
    /\ file_metas = <<>>
    /\ closed = <<>>
    /\ tmp_of = <<>>
    /\ document_store = NoStore
    /\ pipeline = NoPipeline
    /\ ran = <<>>
    /\ upload_dir = {}
    /\ store = [c \in Collections |-> {}]
    /\ before = [upload_dir |-> upload_dir, store |-> store]

Persistent == <<upload_dir, store, before>>
Inputs == <<meta, files, form>>

\* An uncaught exception leaves the handler: the framework answers 500.
Raise(where) ==
    /\ pc' = "failed"
    /\ failedAt' = where
    /\ response' = [status |-> 500, detail |-> "Internal Server Error"]

\* ------------------------------------------------------------ the handler
\* The framework calls upload_file with the parsed form (lines 46-55).
Request ==
    /\ pc = "idle"
    /\ \E m \in MetaStrings, fs \in Batches, o \in OverrideForms :
          /\ Cardinality(upload_dir) + Len(fs) <= MaxUploads
          /\ meta' = m
          /\ files' = fs
          /\ form' = o
          /\ closed' = [i \in 1..Len(fs) |-> FALSE]
    /\ pc' = "decode"
    /\ UNCHANGED <<failedAt, response, heap, meta_form, file_paths,
                   file_metas, tmp_of, document_store, pipeline, ran,
                   Persistent>>

\* meta_form = json.loads(meta) or {}; not a dict: HTTPException(500).
DecodeMeta ==
    /\ pc = "decode"
    /\ IF ~json_valid(meta)
         THEN /\ Raise("json")
              /\ UNCHANGED <<heap, meta_form>>
         ELSE IF ~IsDict(MetaFormOf(meta))
           THEN /\ pc' = "rejected"
                /\ response' = [status |-> 500,
                                detail |-> MetaErrorDetail(MetaFormOf(meta))]
                /\ UNCHANGED <<failedAt, heap, meta_form>>
           ELSE /\ pc' = "copy"
                /\ heap' = <<MetaFormOf(meta).dict>>
                /\ meta_form' = 1
                /\ UNCHANGED <<failedAt, response>>
    /\ UNCHANGED <<Inputs, file_paths, file_metas, closed, tmp_of,
                   document_store, pipeline, ran, Persistent>>

\* uuid.uuid4().hex: an identifier no temporary file carries yet.
NewUuid ==
    IF upload_dir = {} THEN 1
    ELSE 1 + (CHOOSE u \in {e.path.uuid : e \in upload_dir} :
                 \A e \in upload_dir : e.path.uuid <= u)

\* Path(FILE_UPLOAD_PATH) / f"{uuid.uuid4().hex}_{file.filename}"
TempPath(filename) == [uuid |-> NewUuid, filename |-> filename]

\* Variant: the path is put in front of the list.
PrependPath(paths, p) == <<p>> \o paths

\* file_paths.append(file_path)
AppendPath(paths, p) == Append(paths, p)

\* Variant: no finally clause, the handle stays open.
NoClose(handles, i) == handles

\* finally: file.file.close()
CloseOnExit(handles, i) == [handles EXCEPT ![i] = TRUE]

\* for file in files: the loop variable, from the entries collected so far.
LoopIndex == Len(file_paths) + 1

\* What shutil.copyfileobj has written when a read or a write raises: any
\* prefix of the upload, the whole of it when the last read raises.
Prefixes(text) == { SubSeq(text, 1, n) : n \in 0..Len(text) }

\* One iteration of the copy loop that raises nothing (lines 61-71).
CopyFile ==
    /\ pc = "copy"
    /\ LoopIndex <= Len(files)
    /\ LET i == LoopIndex
           file == files[i]
           file_path == TempPath(file.filename)
       IN /\ upload_dir' = upload_dir \cup
                              {[path |-> file_path, content |-> file.content]}
          /\ file_paths' = AppendPath(file_paths, file_path)
          /\ heap' = [heap EXCEPT ![meta_form] = DictSet(@, "name", file.filename)]
          /\ file_metas' = Append(file_metas, meta_form)
          /\ closed' = CloseOnExit(closed, i)
          /\ tmp_of' = Append(tmp_of, file_path)
          /\ pc' = IF i = Len(files) THEN "store" ELSE "copy"
    /\ UNCHANGED <<failedAt, response, Inputs, meta_form, document_store,
                   pipeline, ran, store, before>>

\* file.file.close() raising: whether the handle ends closed or open is
\* the handle's own matter.
CloseRaises(handles, i) == { [handles EXCEPT ![i] = c] : c \in BOOLEAN }

\* One iteration of the copy loop in which file_path.open or
\* shutil.copyfileobj raises. A failed open leaves no file, a failed copy
\* leaves the part of the file written so far. The finally clause then
\* calls close(): when it returns, the handle is closed and the exception
\* of the body leaves the handler; when it raises too, its exception
\* leaves the handler from line 71.
CopyFileFails ==
    /\ pc = "copy"
    /\ LoopIndex <= Len(files)
    /\ LET i == LoopIndex
           file == files[i]
           file_path == TempPath(file.filename)
       IN /\ \/ upload_dir' = upload_dir
             \/ \E part \in Prefixes(file.content) :
                   upload_dir' = upload_dir \cup
                                    {[path |-> file_path, content |-> part]}
          /\ \/ /\ closed' = CloseOnExit(closed, i)
                /\ Raise("copy")
             \/ /\ closed' \in CloseRaises(closed, i)
                /\ Raise("copy_close")
    /\ UNCHANGED <<Inputs, heap, meta_form, file_paths, file_metas, tmp_of,
                   document_store, pipeline, ran, store, before>>

\* Variant: the store keeps the stored document on a duplicate.
DuplicateDocumentsSkip == "skip"

\* One iteration of the copy loop in which the copy succeeds and
\* file.file.close() of the finally clause raises (line 71): the path and
\* the metadata are appended and the exception leaves the handler.
CopyFileCloseFails ==
    /\ pc = "copy"
    /\ LoopIndex <= Len(files)
    /\ LET i == LoopIndex
           file == files[i]
           file_path == TempPath(file.filename)
       IN /\ upload_dir' = upload_dir \cup
                              {[path |-> file_path, content |-> file.content]}
          /\ file_paths' = AppendPath(file_paths, file_path)
          /\ heap' = [heap EXCEPT ![meta_form] = DictSet(@, "name", file.filename)]
          /\ file_metas' = Append(file_metas, meta_form)
          /\ tmp_of' = Append(tmp_of, file_path)
          /\ closed' \in CloseRaises(closed, i)
    /\ Raise("close")
    /\ UNCHANGED <<Inputs, meta_form, document_store, pipeline, ran,
                   store, before>>

\* duplicate_documents='overwrite'
DuplicateDocuments == "overwrite"

\* Variant: the index argument is left to the constructor's default.
IndexLookupDefault == [ok |-> TRUE, value |-> "document"]

\* Variant: file_metas[0].get('index', 'document').
IndexLookupGet ==
    LET m == heap[file_metas[1]]
    IN IF "index" \in DOMAIN m
         THEN [ok |-> TRUE, value |-> m["index"]]
         ELSE [ok |-> TRUE, value |-> "document"]

\* file_metas[0]['index']: the value, or KeyError.
IndexLookup ==
    LET m == heap[file_metas[1]]
    IN IF "index" \in DOMAIN m
         THEN [ok |-> TRUE, value |-> m["index"]]
         ELSE [ok |-> FALSE, value |-> "KeyError"]

\* ElasticsearchDocumentStore(...) (lines 73-85).
OpenStore ==
    /\ pc = "store"
    /\ IF IndexLookup.ok
         THEN /\ document_store' =
                    [constructed |-> TRUE, index |-> IndexLookup.value,
                     similarity |-> "dot_product",
                     embedding_dim |-> EmbeddingDim,
                     duplicate_documents |-> DuplicateDocuments]
              /\ pc' = "build"
              /\ UNCHANGED <<failedAt, response>>
         ELSE /\ Raise("store")
              /\ UNCHANGED document_store
    /\ UNCHANGED <<Inputs, heap, meta_form, file_paths, file_metas, closed,
                   tmp_of, pipeline, ran, Persistent>>

\* The store's constructor cannot reach the backend: the exception leaves
\* the handler.
OpenStoreFails ==
    /\ pc = "store"
    /\ IndexLookup.ok
    /\ Raise("backend")
    /\ UNCHANGED <<Inputs, heap, meta_form, file_paths, file_metas, closed,
                   tmp_of, document_store, pipeline, ran, Persistent>>

\* PreProcessor(...) (lines 98-106).
PreProcessorArgs ==
    [clean_whitespace |-> Some(TRUE), clean_empty_lines |-> Some(TRUE),
     clean_header_footer |-> Some(TRUE), split_by |-> Some("sentence"),
     split_length |-> Some(PreProcessorSplitLength),
     split_overlap |-> Some(0),
     split_respect_sentence_boundary |-> Some(FALSE)]

\* TextConverter(), PDFToTextConverter(), MarkdownConverter(): no argument
\* is passed, every setting is the library's default (lines 94-96).
ConverterArgs == FileConverterParams(Nothing, Nothing)

\* Variant: the Markdown converter is bound to the PDF channel.
GraphMiswired ==
    { [name |-> "FileTypeClassifier", inputs |-> {"File"}],
      [name |-> "TextConverter", inputs |-> {"FileTypeClassifier.output_1"}],
      [name |-> "PDFToTextConverter", inputs |-> {"FileTypeClassifier.output_2"}],
      [name |-> "MarkdownConverter", inputs |-> {"FileTypeClassifier.output_2"}],
      [name |-> "PreProcessor",
       inputs |-> {"TextConverter", "PDFToTextConverter", "MarkdownConverter"}],
      [name |-> "EmbeddingRetriever", inputs |-> {"PreProcessor"}],
      [name |-> "DocumentStore", inputs |-> {"EmbeddingRetriever"}] }

\* The add_node calls (lines 110-117).
Graph ==
    { [name |-> "FileTypeClassifier", inputs |-> {"File"}],
      [name |-> "TextConverter", inputs |-> {"FileTypeClassifier.output_1"}],
      [name |-> "PDFToTextConverter", inputs |-> {"FileTypeClassifier.output_2"}],
      [name |-> "MarkdownConverter", inputs |-> {"FileTypeClassifier.output_3"}],
      [name |-> "PreProcessor",
       inputs |-> {"TextConverter", "PDFToTextConverter", "MarkdownConverter"}],
      [name |-> "EmbeddingRetriever", inputs |-> {"PreProcessor"}],
      [name |-> "DocumentStore", inputs |-> {"EmbeddingRetriever"}] }

\* The components and the Pipeline are built (lines 87-117).
BuildPipeline ==
    /\ pc = "build"
    /\ pipeline' = [built |-> TRUE, graph |-> Graph,
                    preprocessor |-> PreProcessorArgs,
                    converter |-> ConverterArgs]
    /\ pc' = "run"
    /\ UNCHANGED <<failedAt, response, Inputs, heap, meta_form, file_paths,
                   file_metas, closed, tmp_of, document_store, ran, Persistent>>

\* ------------------------------------------------------------------ p.run
\* FileTypeClassifier: the output channel a file leaves the classifier on,
\* by the extension of its path. An unsupported type leaves on no channel a
\* node is bound to.
Classify(path) ==
    CASE Suffix(path.filename) = "txt" -> "FileTypeClassifier.output_1"
      [] Suffix(path.filename) = "pdf" -> "FileTypeClassifier.output_2"
      [] Suffix(path.filename) = "md"  -> "FileTypeClassifier.output_3"
      [] OTHER -> "FileTypeClassifier.unmatched"

\* What a node that ran emits: the classifier its channel, any other node
\* its own name.
Emits(node, channel) ==
    IF node.name = "FileTypeClassifier" THEN {channel} ELSE {node.name}

\* A node runs as soon as one of its inputs is live.
Runs(graph, live) == { node \in graph : node.inputs \cap live # {} }

RECURSIVE Flow(_, _, _, _)
Flow(graph, channel, live, n) ==
    IF n = 0 THEN live
    ELSE Flow(graph, channel,
              live \cup UNION { Emits(node, channel) : node \in Runs(graph, live) },
              n - 1)

\* The nodes one file passes through, entering at "File".
Visited(graph, channel) ==
    { node.name : node \in Runs(graph, Flow(graph, channel, {"File"}, Cardinality(graph))) }

\* PreProcessor: consecutive passages of at most n sentences, in document
\* order.
RECURSIVE Split(_, _)
Split(text, n) ==
    IF Len(text) = 0 THEN <<>>
    ELSE IF Len(text) <= n THEN <<text>>
    ELSE <<SubSeq(text, 1, n)>> \o Split(SubSeq(text, n + 1, Len(text)), n)

\* The text of the temporary file at a path.
ReadFile(path) == (CHOOSE e \in upload_dir : e.path = path).content

\* The documents one file arrives at the store as: one per passage, with
\* the file's metadata and a vector of the store's dimension. A document's
\* identity is its content.
Documents(path, m) ==
    LET passages == Split(ReadFile(path), pipeline.preprocessor.split_length[1])
    IN { [content |-> passages[j], meta |-> m,
          embedding_dim |-> document_store.embedding_dim] :
         j \in 1..Len(passages) }

SameIdentity(docs, d) == { e \in docs : e.content = d.content }

\* write_documents into one collection under the store's duplicate policy.
WriteDocuments(st, index, docs, policy) ==
    IF policy = "overwrite"
      THEN [st EXCEPT ![index] =
               { d \in @ : \A n \in docs : n.content # d.content } \cup docs]
      ELSE [st EXCEPT ![index] =
               @ \cup { n \in docs : SameIdentity(@, n) = {} }]

RunIndex == Len(ran) + 1

ReachesStore(k) ==
    "DocumentStore" \in Visited(pipeline.graph, Classify(file_paths[k]))

\* p.run(file_paths=file_paths, meta=file_metas): the next file of the
\* list goes through the graph; after the last one the handler returns and
\* the framework answers 200.
RunFile ==
    /\ pc = "run"
    /\ RunIndex <= Len(file_paths)
    /\ LET k == RunIndex
           path == file_paths[k]
           m == heap[file_metas[k]]
           visited == Visited(pipeline.graph, Classify(path))
           docs == IF ReachesStore(k) THEN Documents(path, m) ELSE {}
       IN /\ store' = IF docs = {} THEN store
                      ELSE WriteDocuments(store, document_store.index, docs,
                                          document_store.duplicate_documents)
          /\ ran' = Append(ran,
                      [path |-> path, channel |-> Classify(path),
                       visited |-> visited, docs |-> docs,
                       collection |-> document_store.index,
                       replaced |-> IF docs = {} THEN {}
                                    ELSE UNION { SameIdentity(store[document_store.index], d) : d \in docs }])
          /\ IF k = Len(file_paths)
               THEN /\ pc' = "done"
                    /\ response' = [status |-> 200, detail |-> ""]
               ELSE UNCHANGED <<pc, response>>
    /\ UNCHANGED <<failedAt, Inputs, heap, meta_form, file_paths, file_metas,
                   closed, tmp_of, document_store, pipeline, upload_dir,
                   before>>

\* The backend fails while the next file's documents are written: the
\* exception leaves p.run and the handler.
RunFileFails ==
    /\ pc = "run"
    /\ RunIndex <= Len(file_paths)
    /\ ReachesStore(RunIndex)
    /\ Raise("run")
    /\ UNCHANGED <<Inputs, heap, meta_form, file_paths, file_metas, closed,
                   tmp_of, document_store, pipeline, ran, Persistent>>

Terminal == pc \in {"done", "rejected", "failed"}

\* The response is sent and the handler's locals are gone; the upload
\* directory and the store stay as they are.
Return ==
    /\ Terminal
    /\ pc' = "idle"
    /\ failedAt' = "none"
    /\ response' = NoResponse
    /\ meta' = "null"
    /\ files' = <<>>
    /\ form' = NoForm
    /\ heap' = <<>>
    /\ meta_form' = 0
    /\ file_paths' = <<>>
    /\ file_metas' = <<>>
    /\ closed' = <<>>
    /\ tmp_of' = <<>>
    /\ document_store' = NoStore
    /\ pipeline' = NoPipeline
    /\ ran' = <<>>
    /\ before' = [upload_dir |-> upload_dir, store |-> store]
    /\ UNCHANGED <<upload_dir, store>>

Next ==
    \/ Request
    \/ DecodeMeta
    \/ CopyFile
    \/ CopyFileFails
    \/ CopyFileCloseFails
    \/ OpenStore
    \/ OpenStoreFails
    \/ BuildPipeline
    \/ RunFile
    \/ RunFileFails
    \/ Return

Spec == Init /\ [][Next]_vars

\* ----------------------------------------------------------- the claims
\* The metadata the pipeline is given for the i-th file.
MetaOf(i) == heap[file_metas[i]]

\* The temporary file of the i-th uploaded file is in the upload directory
\* with the whole content of the upload.
Copied(i) == [path |-> tmp_of[i], content |-> files[i].content] \in upload_dir

Identities(docs) == { d.content : d \in docs }

\* C1: a meta string that decodes to a JSON value that is not an object
\* (a list, a number, a string, a boolean) is rejected with HTTP 500 and a
\* descriptive message before any file is written to the upload directory
\* and before any document is written to the store.
C1_NonObjectMetaRejectedBeforeAnyWrite ==
    ( /\ pc \notin {"idle", "decode"}
      /\ json_valid(meta)
      /\ json_loads(meta).type \in {"list", "int", "str", "bool"} )
    => /\ pc = "rejected"
       /\ response.status = 500
       /\ response.detail \in
             { "The meta field must be a dict or None, not <class 'list'>",
               "The meta field must be a dict or None, not <class 'int'>",
               "The meta field must be a dict or None, not <class 'str'>",
               "The meta field must be a dict or None, not <class 'bool'>" }
       /\ upload_dir = before.upload_dir
       /\ store = before.store

\* C2: the store is opened on the 'index' value of the first file's
\* metadata and every file of the batch is written into that collection
\* and into no other.
C2_BatchIndexedIntoFirstFilesCollection ==
    document_store.constructed =>
       /\ "index" \in DOMAIN MetaOf(1)
       /\ document_store.index = MetaOf(1)["index"]
       /\ \A j \in 1..Len(ran) : ran[j].collection = MetaOf(1)["index"]
       /\ \A c \in Collections \ {MetaOf(1)["index"]} : store[c] = before.store[c]

C2_Witness ==
    /\ pc = "done"
    /\ Len(files) = 2
    /\ document_store.index = "docs-b"
    /\ ran[1].docs # {}
    /\ ran[2].docs # {}
    /\ Identities(ran[1].docs) # Identities(ran[2].docs)
    /\ Identities(store["docs-b"]) =
          Identities(ran[1].docs) \cup Identities(ran[2].docs)

\* C3: when the pipeline is run, the metadata of the i-th file carries the
\* i-th file's own filename under 'name', for every file of the batch.
C3_EveryFileCarriesItsOwnName ==
    pc = "run" =>
       \A i \in 1..Len(files) : MetaOf(i)["name"] = files[i].filename

\* C4: every override field the caller supplies is the setting the
\* pipeline of the request runs with, and an absent field leaves the
\* pipeline's own setting.
C4_SuppliedOverridesTakeEffect ==
    pc \in {"run", "done"} =>
       /\ \A f \in DOMAIN form.pp :
             form.pp[f] # Nothing => pipeline.preprocessor[f] = form.pp[f]
       /\ \A f \in DOMAIN form.fc :
             form.fc[f] # Nothing => pipeline.converter[f] = form.fc[f]

Converters == {"TextConverter", "PDFToTextConverter", "MarkdownConverter"}

ConverterFor(suffix) ==
    CASE suffix = "txt" -> {"TextConverter"}
      [] suffix = "pdf" -> {"PDFToTextConverter"}
      [] suffix = "md"  -> {"MarkdownConverter"}
      [] OTHER -> {}

\* C5: a text, PDF or Markdown file passes through exactly its own
\* converter; a file of any other type passes through no converter, never
\* reaches the PreProcessor, the EmbeddingRetriever or the DocumentStore,
\* leaves no document in the store and is not what a failed run failed on.
C5_OneConverterOrDropped ==
    /\ \A j \in 1..Len(ran) :
          LET suffix == Suffix(ran[j].path.filename)
          IN /\ ran[j].visited \cap Converters = ConverterFor(suffix)
             /\ suffix \in {"txt", "pdf", "md"} =>
                   /\ Cardinality(ran[j].visited \cap Converters) = 1
                   /\ "DocumentStore" \in ran[j].visited
             /\ suffix \notin {"txt", "pdf", "md"} =>
                   /\ ran[j].visited = {"FileTypeClassifier"}
                   /\ ran[j].docs = {}
    /\ (pc = "failed" /\ failedAt = "run") =>
          Suffix(file_paths[RunIndex].filename) \in {"txt", "pdf", "md"}
    /\ (pc = "done" /\ \A j \in 1..Len(ran) :
                          Suffix(ran[j].path.filename) \notin {"txt", "pdf", "md"})
          => /\ store = before.store
             /\ response.status = 200

C5_Witness ==
    /\ pc = "done"
    /\ Len(ran) = 2
    /\ Suffix(ran[1].path.filename) = "bin"
    /\ ran[1].docs = {}
    /\ Suffix(ran[2].path.filename) = "md"
    /\ ran[2].docs # {}
    /\ response.status = 200

\* C6: a collection never holds two documents of one content identity, and
\* a written document replaces the stored document of its identity: after
\* the write the store holds exactly the written one.
C6_OneDocumentPerIdentity ==
    /\ \A c \in Collections : \A d, e \in store[c] :
          d.content = e.content => d = e
    /\ ran # <<>> =>
          LET last == ran[Len(ran)]
          IN \A d \in last.docs : SameIdentity(store[last.collection], d) = {d}

C6_Witness ==
    /\ ran # <<>>
    /\ \E old \in ran[Len(ran)].replaced : old \notin ran[Len(ran)].docs

\* C7: after a request whose pipeline run completed without error, none of
\* the temporary files the request wrote remains in the upload directory.
C7_TemporaryFilesRemoved ==
    pc = "done" =>
       \A i \in 1..Len(tmp_of) : \A e \in upload_dir : e.path # tmp_of[i]

\* C8: when the decoded metadata has no 'index' key, the handler gets no
\* further than the construction of the store: no store, no pipeline, no
\* run, no document written; and when it fails there, every file of the
\* batch is in the upload directory.
C8_NoIndexFailsAtStoreConstruction ==
    (meta_form = 1 /\ "index" \notin DOMAIN heap[meta_form]) =>
       /\ pc \in {"copy", "store", "failed"}
       /\ ~document_store.constructed
       /\ ~pipeline.built
       /\ ran = <<>>
       /\ store = before.store
       /\ pc = "failed" => failedAt \in {"copy", "copy_close", "close", "store"}
       /\ (pc = "failed" /\ failedAt = "store") =>
             /\ response.status = 500
             /\ Len(tmp_of) = Len(files)
             /\ \A i \in 1..Len(files) : Copied(i)

C8_Witness ==
    /\ pc = "failed"
    /\ failedAt = "store"
    /\ meta = "null"
    /\ Len(files) = 2
    /\ Cardinality(upload_dir) = Cardinality(before.upload_dir) + 2

\* C9: the run takes the files in the order they were uploaded, and when
\* it fails on the k-th file the store holds the documents of the files
\* before it, on top of what it held before the request, and nothing of
\* the k-th file or the files after it.
C9_SequentialNoRollback ==
    /\ \A j \in 1..Len(ran) :
          /\ ran[j].path = tmp_of[j]
          /\ ran[j].path.filename = files[j].filename
    /\ pc \in {"run", "done", "failed"} =>
          \A c \in Collections :
             Identities(store[c]) =
                Identities(before.store[c]) \cup
                UNION { Identities(ran[j].docs) :
                           j \in { i \in 1..Len(ran) : ran[i].collection = c } }
    /\ (pc = "failed" /\ failedAt = "run") =>
          \A j \in 1..Len(ran) : ran[j].docs \subseteq store[ran[j].collection]

C9_Witness ==
    /\ pc = "failed"
    /\ failedAt = "run"
    /\ Len(files) = 2
    /\ Len(ran) = 1
    /\ ran[1].docs # {}
    /\ ran[1].docs \subseteq store[ran[1].collection]
    /\ files[2].content \notin Identities(store[ran[1].collection])

PastCopyLoop ==
    \/ pc \in {"store", "build", "run", "done"}
    \/ pc = "failed" /\ failedAt \in {"store", "backend", "run"}

AfterCopyLoop ==
    /\ (document_store.constructed \/ pipeline.built \/ ran # <<>>) => PastCopyLoop
    /\ PastCopyLoop =>
          /\ Len(file_paths) = Len(files)
          /\ Len(file_metas) = Len(files)
          /\ \A i \in 1..Len(files) :
                /\ file_paths[i] = tmp_of[i]
                /\ Copied(i)
                /\ closed[i]

NothingBuilt ==
    /\ ~document_store.constructed
    /\ ~pipeline.built
    /\ ran = <<>>
    /\ store = before.store

====
